---------------------------- MODULE Spec2Model ----------------------------
(***************************************************************************)
(* The gallery maintenance scripts of the tozan-website repository as a    *)
(* state machine over the working directory: the image directories, the    *)
(* generated files and index.html.  Text is a sequence of one-character    *)
(* strings, so that str.find, str.lower, slicing and the regular           *)
(* expression of generate_gallery_urls.py act on characters as in Python.  *)
(***************************************************************************)
EXTENDS Integers, Sequences, FiniteSets, TLC

VARIABLES
  windows,           \* pathlib flavour: TRUE = WindowsPath (glob and sort ignore case)
  inputExists,       \* assets/images/gallery exists
  inputFiles,        \* names of the files in assets/images/gallery
  convertedExists,   \* assets/images/gallery/converted exists
  convertedFiles,    \* names of the files in assets/images/gallery/converted
  gallery_generated, \* content of gallery_generated.html, or Absent
  index_html,        \* content of index.html, or Absent
  image_list_js,     \* content of image_list.js, or Absent
  gallery_sections,  \* content of gallery_sections.html, or Absent
  images,            \* generate_gallery_html: the scanned list (names)
  categorized,       \* generate_gallery_html: category id -> list of names
  html_parts,        \* generate_gallery_html: the list of text parts
  image_names,       \* generate_image_list: the names written
  unique_images,     \* generate_gallery_urls.py: the extracted names
  pc,                \* convert_heic_to_jpg: position in the function
  heic_files,        \* convert_heic_to_jpg: the list the four globs built
  attempted,         \* convert_heic_to_jpg: names whose loop body was entered, in order
  converted_count,   \* convert_heic_to_jpg
  failed_count,      \* convert_heic_to_jpg
  updates,           \* number of completed update_gallery runs (bounded)
  report             \* outcome of the last finished run of a script

vars == <<windows, inputExists, inputFiles, convertedExists, convertedFiles,
          gallery_generated, index_html, image_list_js, gallery_sections,
          images, categorized, html_parts, image_names, unique_images,
          pc, heic_files, attempted, converted_count, failed_count, updates, report>>

fsVars == <<windows, inputExists, inputFiles, convertedExists, convertedFiles>>
galleryLocals == <<images, categorized, html_parts>>
convertLocals == <<pc, heic_files, attempted, converted_count, failed_count>>

\* A file that does not exist (open() raises FileNotFoundError).
Absent == <<"(absent)">>

----------------------------------------------------------------------------
\* Bounds of the model.
MaxImages == 3     \* files in the converted directory at the start
MaxHeic == 3       \* files in the source directory at the start
MaxUpdates == 2    \* runs of update_gallery that rewrite index.html

----------------------------------------------------------------------------
\* Characters and the str methods the scripts use.

\* The printable ASCII characters in code order, from code 32 (the grave accent,
\* which a TLA+ string cannot hold, is a placeholder: no text of the model has it).
Ascii == <<" ","!","\"","#","$","%","&","'","(",")","*","+",",","-",".","/","0","1","2","3","4","5","6","7","8","9",":",";","<","=",">","?","@","A","B","C","D","E","F","G","H","I","J","K","L","M","N","O","P","Q","R","S","T","U","V","W","X","Y","Z","[","\\","]","^","_">>
         \o <<"(grave accent)">>
         \o <<"a","b","c","d","e","f","g","h","i","j","k","l","m","n","o","p","q","r","s","t","u","v","w","x","y","z","{","|","}","~">>

\* ord(c), as a table over the characters of the model.
Chars == {Ascii[i] : i \in 1..Len(Ascii)} \cup {"\n"}
OrdTable == [c \in Chars |-> IF c = "\n" THEN 10 ELSE 31 + (CHOOSE i \in 1..Len(Ascii) : Ascii[i] = c)]
Ord(c) == OrdTable[c]

IsUpper(c) == Ord(c) >= 65 /\ Ord(c) <= 90
IsLower(c) == Ord(c) >= 97 /\ Ord(c) <= 122

\* str.lower / str.upper on one character.
LowerTable == [c \in Chars |-> IF IsUpper(c) THEN Ascii[Ord(c) + 32 - 31] ELSE c]
UpperTable == [c \in Chars |-> IF IsLower(c) THEN Ascii[Ord(c) - 32 - 31] ELSE c]
LowerChar(c) == LowerTable[c]
UpperChar(c) == UpperTable[c]

\* A text given as a function on 1..n, as a sequence.
Text(f, n) == SubSeq(f, 1, n)

Lower(s) == Text([i \in 1..Len(s) |-> LowerChar(s[i])], Len(s))
Upper(s) == Text([i \in 1..Len(s) |-> UpperChar(s[i])], Len(s))

\* s[a:b] of Python for 0 <= a, b (clamped to the length, empty when b <= a).
Slice(s, a, b) ==
  LET hi == IF b > Len(s) THEN Len(s) ELSE b
  IN IF hi <= a THEN <<>> ELSE SubSeq(s, a + 1, hi)

\* s.startswith(p), s.endswith(p)
StartsWith(s, p) == Len(p) <= Len(s) /\ \A j \in 1..Len(p) : s[j] = p[j]
EndsWith(s, p) == Len(p) <= Len(s) /\ \A j \in 1..Len(p) : s[Len(s) - Len(p) + j] = p[j]

\* p occurs in s at 0-based offset i.
OccursAt(s, p, i) == i + Len(p) <= Len(s) /\ \A j \in 1..Len(p) : s[i + j] = p[j]

\* s.find(p): the 0-based offset of the first occurrence, -1 when there is none.
Find(s, p) ==
  LET hits == {i \in 0..Len(s) : OccursAt(s, p, i)}
  IN IF hits = {} THEN -1 ELSE CHOOSE i \in hits : \A k \in hits : i <= k

\* p in s
Contains(s, p) == Find(s, p) # -1

\* s.replace(a, b) for single characters a and b.
ReplaceChar(s, a, b) == Text([i \in 1..Len(s) |-> IF s[i] = a THEN b ELSE s[i]], Len(s))

\* str.title(): a cased character is upper-cased after an uncased one and
\* lower-cased after a cased one.
Title(s) ==
  Text([i \in 1..Len(s) |->
          IF i > 1 /\ (IsUpper(s[i - 1]) \/ IsLower(s[i - 1]))
          THEN LowerChar(s[i]) ELSE UpperChar(s[i])], Len(s))

\* str(n) for n >= 0, as '{}'.format(n) and the f-strings print it.
RECURSIVE Str(_)
Str(n) == IF n < 10 THEN <<Ascii[n + 17]>> ELSE Str(n \div 10) \o <<Ascii[(n % 10) + 17]>>

\* sep.join(parts)
RECURSIVE Join(_, _)
Join(parts, sep) ==
  IF parts = <<>> THEN <<>>
  ELSE IF Len(parts) = 1 THEN parts[1]
  ELSE parts[1] \o sep \o Join(Tail(parts), sep)

\* s.split('\n')
RECURSIVE SplitLines(_)
SplitLines(s) ==
  LET i == Find(s, <<"\n">>)
  IN IF i = -1 THEN <<s>> ELSE <<Slice(s, 0, i)>> \o SplitLines(Slice(s, i + 1, Len(s)))

IsSpace(c) == c = " " \/ c = "\n"

\* s.strip()
RECURSIVE LStrip(_)
LStrip(s) == IF s # <<>> /\ IsSpace(s[1]) THEN LStrip(Tail(s)) ELSE s
RECURSIVE RStrip(_)
RStrip(s) == IF s # <<>> /\ IsSpace(s[Len(s)]) THEN RStrip(Slice(s, 0, Len(s) - 1)) ELSE s
Strip(s) == RStrip(LStrip(s))

\* a < b for texts, by character code (str comparison).
RECURSIVE TextLess(_, _)
TextLess(a, b) ==
  IF b = <<>> THEN FALSE
  ELSE IF a = <<>> THEN TRUE
  ELSE IF a[1] # b[1] THEN Ord(a[1]) < Ord(b[1])
  ELSE TextLess(Tail(a), Tail(b))

----------------------------------------------------------------------------
\* pathlib: glob, sorted, stem.

\* The comparison key of a path in one directory: WindowsPath compares
\* case-folded, PosixPath as written.
PathKey(name) == IF windows THEN Lower(name) ELSE name

\* Path.glob('*' + suffix) matches a name: fnmatch on the whole name, ignoring
\* case for WindowsPath.
GlobMatches(name, suffix) ==
  IF windows THEN EndsWith(Lower(name), Lower(suffix)) ELSE EndsWith(name, suffix)

\* sorted(paths): stable insertion by PathKey.
RECURSIVE Insert(_, _)
Insert(sorted, name) ==
  IF sorted = <<>> THEN <<name>>
  ELSE IF TextLess(PathKey(name), PathKey(sorted[1])) THEN <<name>> \o sorted
  ELSE <<sorted[1]>> \o Insert(Tail(sorted), name)

RECURSIVE SortedPaths(_)
SortedPaths(list) ==
  IF list = <<>> THEN <<>>
  ELSE Insert(SortedPaths(Slice(list, 0, Len(list) - 1)), list[Len(list)])

\* The names of a set in ascending order: one listing of a directory.
RECURSIVE SetToSeq(_)
SetToSeq(S) ==
  IF S = {} THEN <<>>
  ELSE LET x == CHOOSE x \in S : \A y \in S : x = y \/ TextLess(x, y)
       IN <<x>> \o SetToSeq(S \ {x})

\* Every order in which os.scandir may list a directory.
RECURSIVE Listings(_)
Listings(S) ==
  IF S = {} THEN {<<>>}
  ELSE UNION {{<<x>> \o rest : rest \in Listings(S \ {x})} : x \in S}

\* list(dir.glob('*' + suffix)) for a directory listed in the order `listing`.
Glob(listing, suffix) == SelectSeq(listing, LAMBDA n : GlobMatches(n, suffix))

\* Path.stem: the name without its last suffix.
RECURSIVE LastDot(_)
LastDot(s) == IF s = <<>> THEN 0 ELSE IF s[Len(s)] = "." THEN Len(s) ELSE LastDot(Slice(s, 0, Len(s) - 1))
Stem(name) ==
  LET d == LastDot(name)
  IN IF d > 1 /\ d < Len(name) THEN Slice(name, 0, d - 1) ELSE name

----------------------------------------------------------------------------
\* generate_gallery.py

misc == <<"m","i","s","c">>

\* The CATEGORIES dict in its insertion order.
CATEGORIES == <<
  [id |-> <<"m","e","m","b","e","r","s">>, name |-> <<"G","r","o","u","p"," ","M","e","m","b","e","r","s">>, icon |-> <<"p","e","o","p","l","e","-","f","i","l","l">>,
   patterns |-> <<<<"m","e","m","b","e","r","s","-">>, <<"m","e","m","b","e","r","-">>>>],
  [id |-> <<"t","e","m","p","l","e">>, name |-> <<"T","e","m","p","l","e"," ","&"," ","P","r","e","m","i","s","e","s">>, icon |-> <<"b","u","i","l","d","i","n","g">>,
   patterns |-> <<<<"t","e","m","p","l","e","-">>, <<"h","e","a","d","-","t","e","m","p","l","e","-">>, <<"s","a","l","m","o","n","-","g","a","t","e","-">>>>],
  [id |-> <<"f","u","j","i">>, name |-> <<"M","o","u","n","t"," ","F","u","j","i">>, icon |-> <<"m","o","u","n","t","a","i","n">>,
   patterns |-> <<<<"m","o","u","n","t","-","f","u","j","i","-">>, <<"f","u","j","i","-">>>>],
  [id |-> <<"t","r","a","v","e","l">>, name |-> <<"J","o","u","r","n","e","y"," ","&"," ","T","r","a","v","e","l">>, icon |-> <<"a","i","r","p","l","a","n","e">>,
   patterns |-> <<<<"c","a","t","h","a","y","-">>, <<"h","o","n","g","k","o","n","g","-">>, <<"n","a","r","i","t","a","-">>, <<"a","i","r","p","o","r","t">>, <<"C","X","-">>, <<"w","a","g","o","n","-">>>>],
  [id |-> <<"a","c","c","o","m","m","o","d","a","t","i","o","n">>, name |-> <<"H","o","t","e","l"," ","&"," ","D","i","n","i","n","g">>, icon |-> <<"h","o","u","s","e","-","h","e","a","r","t">>,
   patterns |-> <<<<"f","u","j","i","y","e","n","-","h","o","t","e","l">>, <<"d","i","n","n","e","r","-">>, <<"m","e","a","l","-">>, <<"f","o","o","d">>>>],
  [id |-> <<"l","o","c","a","l">>, name |-> <<"L","o","c","a","l"," ","S","i","g","h","t","s">>, icon |-> <<"g","e","o","-","a","l","t">>,
   patterns |-> <<<<"f","u","j","i","n","o","m","i","y","a","-">>, <<"w","a","t","e","r","f","a","l","l">>, <<"v","e","n","d","i","n","g">>, <<"s","t","r","e","e","t","s">>>>],
  [id |-> misc, name |-> <<"O","t","h","e","r"," ","M","o","m","e","n","t","s">>, icon |-> <<"c","a","m","e","r","a">>,
   patterns |-> <<>>] >>

\* CATEGORIES.keys()
CategoryIds == {CATEGORIES[i].id : i \in 1..Len(CATEGORIES)}

\* The first pattern of the list, from position j on, that is in the text.
RECURSIVE AnyPatternIn(_, _, _)
AnyPatternIn(patterns, j, text) ==
  IF j > Len(patterns) THEN FALSE
  ELSE IF Contains(text, patterns[j]) THEN TRUE
  ELSE AnyPatternIn(patterns, j + 1, text)

\* categorize_image with a fall-through that returns the last keyword rule
\* instead of the catch-all.
RECURSIVE CategorizeFromLastRule(_, _)
CategorizeFromLastRule(i, filename_lower) ==
  IF i > Len(CATEGORIES) THEN CATEGORIES[Len(CATEGORIES) - 1].id
  ELSE IF CATEGORIES[i].id = misc THEN CategorizeFromLastRule(i + 1, filename_lower)
  ELSE IF AnyPatternIn(CATEGORIES[i].patterns, 1, filename_lower) THEN CATEGORIES[i].id
  ELSE CategorizeFromLastRule(i + 1, filename_lower)

\* The loop of categorize_image from entry i of CATEGORIES on.
RECURSIVE CategorizeFrom(_, _)
CategorizeFrom(i, filename_lower) ==
  IF i > Len(CATEGORIES) THEN misc
  ELSE IF CATEGORIES[i].id = misc THEN CategorizeFrom(i + 1, filename_lower)
  ELSE IF AnyPatternIn(CATEGORIES[i].patterns, 1, filename_lower) THEN CATEGORIES[i].id
  ELSE CategorizeFrom(i + 1, filename_lower)

categorize_image(filename) == CategorizeFrom(1, Lower(filename))

\* The categorization loop with an assignment in place of the append.
RECURSIVE CategorizeAllOverwrite(_, _, _)
CategorizeAllOverwrite(imgs, k, groups) ==
  IF k > Len(imgs) THEN groups
  ELSE LET category == categorize_image(imgs[k])
       IN CategorizeAllOverwrite(imgs, k + 1, [groups EXCEPT ![category] = <<imgs[k]>>])

\* The categorization loop over images[k..]: categorized[category].append(img).
RECURSIVE CategorizeAll(_, _, _)
CategorizeAll(imgs, k, groups) ==
  IF k > Len(imgs) THEN groups
  ELSE LET category == categorize_image(imgs[k])
       IN CategorizeAll(imgs, k + 1,
                        [groups EXCEPT ![category] = Append(groups[category], imgs[k])])

\* {cat: [] for cat in CATEGORIES.keys()}
EmptyGroups == [c \in CategoryIds |-> <<>>]

\* The first part: the opening of the filters and the "All" control.
AllControl(n) ==
  <<" "," "," "," "," "," ","<","d","i","v"," ","c","l","a","s","s","=","\"","g","a","l","l","e","r","y","-","f","i","l","t","e","r","s"," ","m","b","-","4"," ","t","e","x","t","-","c","e","n","t","e","r","\"",">","\n"," "," "," "," "," "," "," "," ","<","b","u","t","t","o","n"," ","c","l","a","s","s","=","\"","b","t","n"," ","b","t","n","-","o","u","t","l","i","n","e","-","p","r","i","m","a","r","y"," ","a","c","t","i","v","e","\""," ","d","a","t","a","-","f","i","l","t","e","r","=","\"","a","l","l","\"",">","\n"," "," "," "," "," "," "," "," "," "," ","<","i"," ","c","l","a","s","s","=","\"","b","i"," ","b","i","-","g","r","i","d","-","3","x","3","\"",">","<","/","i",">"," ","A","l","l"," ","(">>
  \o Str(n) \o <<")","\n"," "," "," "," "," "," "," "," ","<","/","b","u","t","t","o","n",">">>

\* The control of one category.
CategoryControl(cat_id, icon, name, count) ==
  <<" "," "," "," "," "," "," "," ","<","b","u","t","t","o","n"," ","c","l","a","s","s","=","\"","b","t","n"," ","b","t","n","-","o","u","t","l","i","n","e","-","p","r","i","m","a","r","y","\""," ","d","a","t","a","-","f","i","l","t","e","r","=","\"">> \o cat_id
  \o <<"\"",">","\n"," "," "," "," "," "," "," "," "," "," ","<","i"," ","c","l","a","s","s","=","\"","b","i"," ","b","i","-">> \o icon \o <<"\"",">","<","/","i",">"," ">> \o name
  \o <<" ","(">> \o Str(count) \o <<")","\n"," "," "," "," "," "," "," "," ","<","/","b","u","t","t","o","n",">">>

\* The loop over CATEGORIES without the test of the count.
RECURSIVE ControlPartsNoFilter(_, _)
ControlPartsNoFilter(i, groups) ==
  IF i > Len(CATEGORIES) THEN <<>>
  ELSE LET cat == CATEGORIES[i]
       IN <<CategoryControl(cat.id, cat.icon, cat.name, Len(groups[cat.id]))>>
          \o ControlPartsNoFilter(i + 1, groups)

\* The loop over CATEGORIES that appends a control for each non-empty group.
RECURSIVE ControlParts(_, _)
ControlParts(i, groups) ==
  IF i > Len(CATEGORIES) THEN <<>>
  ELSE LET cat == CATEGORIES[i]
           count == Len(groups[cat.id])
       IN (IF count > 0 THEN <<CategoryControl(cat.id, cat.icon, cat.name, count)>> ELSE <<>>)
          \o ControlParts(i + 1, groups)

converted_dir == <<"a","s","s","e","t","s","/","i","m","a","g","e","s","/","g","a","l","l","e","r","y","/","c","o","n","v","e","r","t","e","d">>

\* img.as_posix() of a file of the converted directory.
AsPosix(name) == converted_dir \o <<"/">> \o name

\* img.stem.replace('-', ' ').replace('_', ' ').title()
AltText(name) == Title(ReplaceChar(ReplaceChar(Stem(name), "-", " "), "_", " "))

\* The block of one image.
ImageBlock(cat_id, name) ==
  <<" "," "," "," "," "," "," "," ","<","d","i","v"," ","c","l","a","s","s","=","\"","g","a","l","l","e","r","y","-","i","t","e","m","\""," ","d","a","t","a","-","c","a","t","e","g","o","r","y","=","\"">> \o cat_id
  \o <<"\"",">","\n"," "," "," "," "," "," "," "," "," "," ","<","a"," ","h","r","e","f","=","\"">> \o AsPosix(name)
  \o <<"\""," ","c","l","a","s","s","=","\"","g","l","i","g","h","t","b","o","x","\""," ","d","a","t","a","-","g","a","l","l","e","r","y","=","\"","t","o","z","a","n","-","g","a","l","l","e","r","y","\"",">","\n"," "," "," "," "," "," "," "," "," "," "," "," ","<","i","m","g"," ","s","r","c","=","\"">> \o AsPosix(name)
  \o <<"\""," ","a","l","t","=","\"">> \o AltText(name)
  \o <<"\""," ","l","o","a","d","i","n","g","=","\"","l","a","z","y","\""," ","/",">","\n"," "," "," "," "," "," "," "," "," "," "," "," ","<","d","i","v"," ","c","l","a","s","s","=","\"","g","a","l","l","e","r","y","-","o","v","e","r","l","a","y","\"",">","\n"," "," "," "," "," "," "," "," "," "," "," "," "," "," ","<","i"," ","c","l","a","s","s","=","\"","b","i"," ","b","i","-","z","o","o","m","-","i","n","\"",">","<","/","i",">","\n"," "," "," "," "," "," "," "," "," "," "," "," ","<","/","d","i","v",">","\n"," "," "," "," "," "," "," "," "," "," ","<","/","a",">","\n"," "," "," "," "," "," "," "," ","<","/","d","i","v",">","\n">>

\* The nested loop over CATEGORIES.keys() and each group's images.
RECURSIVE ImageParts(_, _)
ImageParts(i, groups) ==
  IF i > Len(CATEGORIES) THEN <<>>
  ELSE LET cat_id == CATEGORIES[i].id
       IN [k \in 1..Len(groups[cat_id]) |-> ImageBlock(cat_id, groups[cat_id][k])]
          \o ImageParts(i + 1, groups)

\* html_parts as generate_gallery_html builds it.
HtmlParts(imgs, groups) ==
  <<AllControl(Len(imgs))>> \o ControlParts(1, groups)
  \o <<<<" "," "," "," "," "," ","<","/","d","i","v",">","\n">>, <<" "," "," "," "," "," ","<","d","i","v"," ","c","l","a","s","s","=","\"","g","a","l","l","e","r","y","-","g","r","i","d","\"",">","\n">>>>
  \o ImageParts(1, groups) \o <<<<" "," "," "," "," "," ","<","/","d","i","v",">">>>>

\* generate_gallery_html(): the whole function.
GenerateGalleryHtml ==
  /\ pc = "idle"
  /\ IF ~convertedExists
     THEN /\ report' = "gallery: converted directory not found"
          /\ UNCHANGED <<gallery_generated, galleryLocals>>
     ELSE LET imgs == SortedPaths(Glob(SetToSeq(convertedFiles), <<".","j","p","g">>))
          IN IF imgs = <<>>
             THEN /\ report' = "gallery: no images found"
                  /\ images' = imgs
                  /\ UNCHANGED <<gallery_generated, categorized, html_parts>>
             ELSE LET groups == CategorizeAll(imgs, 1, EmptyGroups)
                      parts == HtmlParts(imgs, groups)
                  IN /\ images' = imgs
                     /\ categorized' = groups
                     /\ html_parts' = parts
                     /\ gallery_generated' = Join(parts, <<"\n">>)
                     /\ report' = "gallery: generated"
  /\ UNCHANGED <<fsVars, index_html, image_list_js, gallery_sections, image_names,
                 unique_images, convertLocals, updates>>

----------------------------------------------------------------------------
\* update_gallery_in_html.py

start_marker == <<"<","d","i","v"," ","c","l","a","s","s","=","\"","g","a","l","l","e","r","y","-","f","i","l","t","e","r","s"," ","m","b","-","4">>
end_marker == <<"<","/","d","i","v",">","\n"," "," "," "," ","<","/","d","i","v",">","\n"," "," ","<","/","s","e","c","t","i","o","n",">","\n","\n"," "," ","<","!","-","-"," ","V","i","s","a"," ","I","n","f","o","r","m","a","t","i","o","n"," ","S","e","c","t","i","o","n"," ","-","-",">">>

\* The literal update_gallery writes after the fragment.
end_text == <<"\n"," "," "," "," "," "," ","<","/","d","i","v",">","\n"," "," "," "," ","<","/","d","i","v",">","\n"," "," ","<","/","s","e","c","t","i","o","n",">","\n","\n"," "," ","<","!","-","-"," ","V","i","s","a"," ","I","n","f","o","r","m","a","t","i","o","n"," ","S","e","c","t","i","o","n"," ","-","-",">">>

\* The marker test with "and" in place of "or".
MarkersMissingBoth(start_idx, end_idx) == start_idx = -1 /\ end_idx = -1

\* The test update_gallery makes before it replaces anything.
MarkersMissing(start_idx, end_idx) == start_idx = -1 \/ end_idx = -1

\* new_html with the tail taken from the end marker on, not from after it.
NewHtmlFromMarker(html_content, gallery_html, start_idx, end_idx) ==
  Slice(html_content, 0, start_idx) \o gallery_html \o end_text
  \o Slice(html_content, end_idx, Len(html_content))

\* new_html
NewHtml(html_content, gallery_html, start_idx, end_idx) ==
  Slice(html_content, 0, start_idx) \o gallery_html \o end_text
  \o Slice(html_content, end_idx + Len(end_marker), Len(html_content))

\* update_gallery() under the handler of the __main__ block: a file that
\* cannot be opened raises, and the handler prints the error.
UpdateGallery ==
  /\ pc = "idle"
  /\ updates < MaxUpdates
  /\ IF gallery_generated = Absent \/ index_html = Absent
     THEN /\ report' = "update: error"
          /\ UNCHANGED <<index_html, updates>>
     ELSE LET start_idx == Find(index_html, start_marker)
              end_idx == Find(index_html, end_marker)
          IN IF MarkersMissing(start_idx, end_idx)
             THEN /\ report' = "update: markers not found"
                  /\ UNCHANGED <<index_html, updates>>
             ELSE /\ index_html' = NewHtml(index_html, gallery_generated, start_idx, end_idx)
                  /\ updates' = updates + 1
                  /\ report' = "update: updated"
  /\ UNCHANGED <<fsVars, gallery_generated, image_list_js, gallery_sections, galleryLocals,
                 image_names, unique_images, convertLocals>>

----------------------------------------------------------------------------
\* generate_image_list.py

image_extensions == <<<<".","j","p","g">>, <<".","j","p","e","g">>, <<".","p","n","g">>, <<".","w","e","b","p">>, <<".","g","i","f">>>>

\* The loop over image_extensions: two globs for each.
RECURSIVE GlobImages(_, _)
GlobImages(listing, i) ==
  IF i > Len(image_extensions) THEN <<>>
  ELSE Glob(listing, image_extensions[i]) \o Glob(listing, Upper(image_extensions[i]))
       \o GlobImages(listing, i + 1)

\* js_array
RECURSIVE JsLines(_)
JsLines(names) ==
  IF names = <<>> THEN <<>>
  ELSE <<" "," ","'">> \o names[1] \o <<"'",",","\n">> \o JsLines(Tail(names))

JsArray(names) == <<"c","o","n","s","t"," ","A","C","T","U","A","L","_","I","M","A","G","E","S"," ","="," ","[","\n">> \o JsLines(names) \o <<"]",";">>

\* generate_image_list(): the whole function.
GenerateImageList ==
  /\ pc = "idle"
  /\ IF ~convertedExists
     THEN /\ report' = "list: converted directory not found"
          /\ UNCHANGED <<image_list_js, image_names>>
     ELSE LET names == SortedPaths(GlobImages(SetToSeq(convertedFiles), 1))
          IN /\ image_names' = names
             /\ image_list_js' = JsArray(names)
             /\ report' = "list: generated"
  /\ UNCHANGED <<fsVars, gallery_generated, index_html, gallery_sections, galleryLocals,
                 unique_images, convertLocals, updates>>

----------------------------------------------------------------------------
\* generate_gallery_urls.py

array_open == <<"c","o","n","s","t"," ","A","C","T","U","A","L","_","I","M","A","G","E","S"," ","="," ","[">>
array_close == <<"]",";">>

\* re.search(r'const ACTUAL_IMAGES = \[(.*?)\];', content, re.DOTALL): group 1
\* of the leftmost match, the group being as short as possible; NoMatch when
\* the pattern is not found.
NoMatch == <<"(no match)">>
ArrayContent(content) ==
  LET p == Find(content, array_open)
      rest == Slice(content, p + Len(array_open), Len(content))
      q == Find(rest, array_close)
  IN IF p = -1 THEN NoMatch
     ELSE IF q = -1 THEN NoMatch
     ELSE Slice(rest, 0, q)

\* The loop over array_content.split('\n').
RECURSIVE ParseLines(_)
ParseLines(lines) ==
  IF lines = <<>> THEN <<>>
  ELSE LET line == Strip(lines[1])
       IN (IF StartsWith(line, <<"'">>) /\ EndsWith(line, <<"'", ",">>)
           THEN <<Slice(line, 1, Len(line) - 2)>>
           ELSE IF StartsWith(line, <<"'">>) /\ EndsWith(line, <<"'">>)
           THEN <<Slice(line, 1, Len(line) - 1)>>
           ELSE <<>>)
          \o ParseLines(Tail(lines))

\* The loop that removes duplicates while preserving order.
RECURSIVE Unique(_, _, _)
Unique(imgs, k, acc) ==
  IF k > Len(imgs) THEN acc
  ELSE IF \E j \in 1..Len(acc) : acc[j] = imgs[k] THEN Unique(imgs, k + 1, acc)
  ELSE Unique(imgs, k + 1, Append(acc, imgs[k]))

\* any(keyword in img_lower for keyword in keywords)
AnyKeyword(img_lower, keywords) == \E k \in keywords : Contains(img_lower, k)

\* The if/elif chain that files an image under a section title.
SectionOf(img) ==
  LET img_lower == Lower(img)
  IN IF AnyKeyword(img_lower, {<<"m","e","m","b","e","r","s","-">>, <<"m","e","m","b","e","r","-">>})
     THEN (IF Contains(img_lower, <<"c","e","r","e","m","o","n","y">>)
           THEN "Ceremony & Special Events" ELSE "Members & Group Photos")
     ELSE IF AnyKeyword(img_lower, {<<"h","e","a","d","t","e","m","p","l","e","-">>, <<"h","e","a","d","-","t","e","m","p","l","e","-">>, <<"t","e","m","p","l","e","-","p","r","e","m","i","s","e","s","-">>,
                                    <<"t","e","m","p","l","e","-">>, <<"t","o","k","o","h","i","b","o","-">>, <<"s","e","i","k","a","d","o","-">>,
                                    <<"t","r","e","a","s","u","r","y","-","h","a","l","l","-">>, <<"s","a","l","m","o","n","-","g","a","t","e","-">>, <<"p","a","g","o","d","a","-">>})
     THEN "Head Temple & Premises"
     ELSE IF Contains(img_lower, <<"m","o","u","n","t","-","f","u","j","i">>) \/ Contains(img_lower, <<"f","u","j","i","-">>)
     THEN "Mount Fuji Views"
     ELSE IF AnyKeyword(img_lower, {<<"h","o","t","e","l","-">>, <<"f","u","j","i","y","e","n","-">>})
     THEN "Hotels & Accommodation"
     ELSE IF AnyKeyword(img_lower, {<<"h","o","n","g","k","o","n","g","-">>, <<"n","a","r","i","t","a","-">>, <<"c","a","t","h","a","y","-">>, <<"c","x","-">>, <<"a","i","r","p","o","r","t">>})
     THEN "Travel & Journey"
     ELSE IF AnyKeyword(img_lower, {<<"g","o","k","a","i","-">>, <<"m","a","p","-">>, <<"b","u","t","s","u","g","u","-">>})
     THEN "Temple Activities"
     ELSE IF AnyKeyword(img_lower, {<<"c","e","r","e","m","o","n","y","-","d","a","y","-">>})
     THEN "Ceremony & Special Events"
     ELSE "Local Places & Food"

\* The keys of the categories dict in its insertion order.
SectionTitles == <<"Members & Group Photos", "Head Temple & Premises", "Mount Fuji Views",
                   "Hotels & Accommodation", "Travel & Journey", "Temple Activities",
                   "Local Places & Food", "Ceremony & Special Events">>

\* What gallery_sections.html holds: for each non-empty section in dict
\* order, its title and its images in order (the markup around them is fixed
\* text and is left out).
RECURSIVE Sections(_, _)
Sections(i, imgs) ==
  IF i > Len(SectionTitles) THEN <<>>
  ELSE LET mine == SelectSeq(imgs, LAMBDA n : SectionOf(n) = SectionTitles[i])
       IN (IF mine = <<>> THEN <<>> ELSE <<[title |-> SectionTitles[i], images |-> mine]>>)
          \o Sections(i + 1, imgs)

\* The script, top to bottom.  A missing image_list.js raises at open(); a
\* text the pattern does not match leaves `images` undefined and the loop
\* over it raises NameError.  Either way nothing is written.
GenerateGalleryUrls ==
  /\ pc = "idle"
  /\ IF image_list_js = Absent
     THEN /\ report' = "urls: error"
          /\ UNCHANGED <<unique_images, gallery_sections>>
     ELSE LET array_content == ArrayContent(image_list_js)
          IN IF array_content = NoMatch
             THEN /\ report' = "urls: error"
                  /\ UNCHANGED <<unique_images, gallery_sections>>
             ELSE LET uniq == Unique(ParseLines(SplitLines(array_content)), 1, <<>>)
                  IN /\ unique_images' = uniq
                     /\ gallery_sections' = Sections(1, uniq)
                     /\ report' = "urls: generated"
  /\ UNCHANGED <<fsVars, gallery_generated, index_html, image_list_js, galleryLocals,
                 image_names, convertLocals, updates>>

----------------------------------------------------------------------------
\* convert_heic_to_jpg.py

heic_patterns == <<<<".","h","e","i","c">>, <<".","H","E","I","C">>, <<".","h","e","i","f">>, <<".","H","E","I","F">>>>

\* The loop over the four patterns: heic_files.extend(input_path.glob(ext)).
RECURSIVE GlobHeic(_, _)
GlobHeic(listing, i) ==
  IF i > Len(heic_patterns) THEN <<>>
  ELSE Glob(listing, heic_patterns[i]) \o GlobHeic(listing, i + 1)

\* output_filename
OutputFilename(heic_name) == Stem(heic_name) \o <<".","j","p","g">>

\* A file written into a directory: on a case-insensitive file system a name
\* that differs only in case is the same file and keeps its name.
WriteFile(files, name) ==
  IF windows /\ \E f \in files : Lower(f) = Lower(name) THEN files ELSE files \cup {name}

\* The outcomes of one pass through the try block: "ok" (the except clause
\* is not entered), "failed" (an exception before anything was saved) and
\* "failed after save" (an exception once image.save had created the file).
Outcomes == {"ok", "failed", "failed after save"}

\* The counters when the except clause does not count the failure.
CountsAfterUncounted(outcome, converted, failed) ==
  IF outcome = "ok" THEN <<converted + 1, failed>> ELSE <<converted, failed>>

\* The counters after one pass through the loop body.
CountsAfter(outcome, converted, failed) ==
  IF outcome = "ok" THEN <<converted + 1, failed>> ELSE <<converted, failed + 1>>

\* convert_heic_to_jpg up to the loop: the directory check, mkdir, the globs.
ConvertBegin ==
  /\ pc = "idle"
  /\ IF ~inputExists
     THEN /\ report' = "convert: input directory does not exist"
          /\ UNCHANGED <<convertedExists, convertLocals>>
     ELSE /\ convertedExists' = TRUE
          /\ \E listing \in Listings(inputFiles) :
               LET found == GlobHeic(listing, 1)
               IN /\ heic_files' = found
                  /\ attempted' = <<>>
                  /\ converted_count' = 0
                  /\ failed_count' = 0
                  /\ IF found = <<>>
                     THEN pc' = "idle" /\ report' = "convert: no HEIC files found"
                     ELSE pc' = "loop" /\ report' = "convert: converting"
  /\ UNCHANGED <<windows, inputExists, inputFiles, convertedFiles, gallery_generated,
                 index_html, image_list_js, gallery_sections, galleryLocals, image_names,
                 unique_images, updates>>

\* One pass through the loop body, for the next file of heic_files.  The whole
\* body is inside the try block and the except clause ends the pass, so the
\* loop goes on to the next file whatever the outcome.
ConvertFile ==
  /\ pc = "loop"
  /\ Len(attempted) < Len(heic_files)
  /\ LET heic_file == heic_files[Len(attempted) + 1]
     IN \E outcome \in Outcomes :
          LET counts == CountsAfter(outcome, converted_count, failed_count)
          IN /\ attempted' = Append(attempted, heic_file)
             /\ convertedFiles' = IF outcome = "failed" THEN convertedFiles
                                  ELSE WriteFile(convertedFiles, OutputFilename(heic_file))
             /\ converted_count' = counts[1]
             /\ failed_count' = counts[2]
  /\ UNCHANGED <<windows, inputExists, inputFiles, convertedExists, heic_files, pc, report,
                 gallery_generated, index_html, image_list_js, gallery_sections,
                 galleryLocals, image_names, unique_images, updates>>

\* The loop is over: the summary is printed and the function returns.
ConvertEnd ==
  /\ pc = "loop"
  /\ Len(attempted) = Len(heic_files)
  /\ pc' = "idle"
  /\ report' = "convert: summary"
  /\ UNCHANGED <<fsVars, heic_files, attempted, converted_count, failed_count,
                 gallery_generated, index_html, image_list_js, gallery_sections,
                 galleryLocals, image_names, unique_images, updates>>

----------------------------------------------------------------------------
\* Initial states and specifications.

\* The subsets of a set of names with at most n names that can be the
\* content of one directory (on a case-insensitive file system no two names
\* differ only in case).
Directories(names, n) ==
  {d \in SUBSET names :
     /\ Cardinality(d) <= n
     /\ windows => \A a, b \in d : Lower(a) = Lower(b) => a = b}

\* No script has run yet.
Fresh ==
  /\ gallery_sections = Absent
  /\ images = <<>> /\ categorized = EmptyGroups /\ html_parts = <<>>
  /\ image_names = <<>> /\ unique_images = <<>>
  /\ pc = "idle" /\ heic_files = <<>> /\ attempted = <<>>
  /\ converted_count = 0 /\ failed_count = 0
  /\ updates = 0 /\ report = "none"

\* The whole working directory, small.
SmallNames == {<<"a",".","j","p","g">>, <<"b",".","P","N","G">>}
SmallHeic == {<<"x",".","h","e","i","c">>}
Init ==
  /\ windows \in BOOLEAN
  /\ inputExists \in BOOLEAN
  /\ inputFiles \in (IF inputExists THEN Directories(SmallHeic, MaxHeic) ELSE {{}})
  /\ convertedExists \in (IF inputExists THEN BOOLEAN ELSE {FALSE})
  /\ convertedFiles \in (IF convertedExists THEN Directories(SmallNames, MaxImages) ELSE {{}})
  /\ gallery_generated = Absent
  /\ index_html \in {Absent, start_marker \o <<"x">> \o end_marker}
  /\ image_list_js = Absent
  /\ Fresh

Next ==
  \/ GenerateGalleryHtml
  \/ UpdateGallery
  \/ GenerateImageList
  \/ GenerateGalleryUrls
  \/ ConvertBegin
  \/ ConvertFile
  \/ ConvertEnd

Spec == Init /\ [][Next]_vars

\* generate_gallery.py over a range of converted directories.
GalleryNames == {<<"a",".","j","p","g">>, <<"f","u","j","i","-","1",".","j","p","g">>, <<"m","o","u","n","t","-","f","u","j","i","-","2",".","j","p","g">>, <<"t","e","m","p","l","e","-","f","u","j","i","-","3",".","j","p","g">>,
                 <<"C","X","-","w","a","t","e","r","f","a","l","l",".","j","p","g">>, <<"M","e","m","b","e","r","-","F","o","o","d",".","j","p","g">>, <<"b",".","P","N","G">>, <<"c",".","J","P","G">>}
InitGallery ==
  /\ windows \in BOOLEAN
  /\ inputExists = TRUE /\ inputFiles = {}
  /\ convertedExists \in BOOLEAN
  /\ convertedFiles \in (IF convertedExists THEN Directories(GalleryNames, MaxImages) ELSE {{}})
  /\ gallery_generated = Absent
  /\ index_html = Absent
  /\ image_list_js = Absent
  /\ Fresh

NextGallery == GenerateGalleryHtml

SpecGallery == InitGallery /\ [][NextGallery]_vars

\* update_gallery over a range of documents: every text of at most MaxPieces
\* pieces, a piece being a marker, a character or the indentation.
MaxPieces == 4
Pieces == {start_marker, end_marker, <<"x">>, <<" "," "," "," "," "," ">>}
RECURSIVE Documents(_)
Documents(n) ==
  IF n = 0 THEN {<<>>}
  ELSE Documents(n - 1) \cup {d \o p : d \in Documents(n - 1), p \in Pieces}

SpliceNames == {<<"a",".","j","p","g">>}
InitSplice ==
  /\ windows = FALSE
  /\ inputExists = TRUE /\ inputFiles = {}
  /\ convertedExists = TRUE
  /\ convertedFiles \in Directories(SpliceNames, MaxImages)
  /\ gallery_generated \in {Absent, <<"F">>}
  /\ index_html \in Documents(MaxPieces) \cup {Absent}
  /\ image_list_js = Absent
  /\ Fresh

NextSplice == GenerateGalleryHtml \/ UpdateGallery

SpecSplice == InitSplice /\ [][NextSplice]_vars

\* generate_image_list.py and generate_gallery_urls.py over a range of
\* converted directories.
ListNames == {<<"a",".","j","p","g">>, <<"a","]",";","b",".","j","p","g">>, <<"i","t","'","s",".","j","p","g">>, <<"b",".","P","N","G">>, <<"c",".","g","i","f">>, <<"z",".","J","P","E","G">>, <<"n","o","t","e","s",".","t","x","t">>}
InitList ==
  /\ windows \in BOOLEAN
  /\ inputExists = TRUE /\ inputFiles = {}
  /\ convertedExists \in BOOLEAN
  /\ convertedFiles \in (IF convertedExists THEN Directories(ListNames, MaxImages) ELSE {{}})
  /\ gallery_generated = Absent
  /\ index_html = Absent
  /\ image_list_js = Absent
  /\ Fresh

NextList == GenerateImageList \/ GenerateGalleryUrls

SpecList == InitList /\ [][NextList]_vars

\* convert_heic_to_jpg.py over a range of source directories.
HeicNames == {<<"x",".","h","e","i","c">>, <<"x",".","H","E","I","C">>, <<"Y",".","H","E","I","C">>, <<"z",".","h","e","i","f">>, <<"n",".","t","x","t">>}
InitConvert ==
  /\ windows \in BOOLEAN
  /\ inputExists \in BOOLEAN
  /\ inputFiles \in (IF inputExists THEN Directories(HeicNames, MaxHeic) ELSE {{}})
  /\ convertedExists \in (IF inputExists THEN BOOLEAN ELSE {FALSE})
  /\ convertedFiles = {}
  /\ gallery_generated = Absent
  /\ index_html = Absent
  /\ image_list_js = Absent
  /\ Fresh

NextConvert == ConvertBegin \/ ConvertFile \/ ConvertEnd

SpecConvert == InitConvert /\ [][NextConvert]_vars

----------------------------------------------------------------------------
\* Properties.

\* The position of a category id in CATEGORIES.
RuleIndex(id) == CHOOSE i \in 1..Len(CATEGORIES) : CATEGORIES[i].id = id

\* The file name, as written, contains a keyword of rule i.
HasKeyword(filename, i) ==
  \E j \in 1..Len(CATEGORIES[i].patterns) : Contains(filename, CATEGORIES[i].patterns[j])

\* No keyword of a rule other than the catch-all is in the lower-cased name.
NoKeywordMatches(filename) ==
  \A i \in 1..Len(CATEGORIES) :
    CATEGORIES[i].id # misc =>
      \A j \in 1..Len(CATEGORIES[i].patterns) :
        ~Contains(Lower(filename), CATEGORIES[i].patterns[j])

\* The names of a list.
Range(list) == {list[k] : k \in 1..Len(list)}

\* The groups a name was put in by the last run, with the position in each.
PlacesOf(name) ==
  {<<c, k>> \in CategoryIds \X (1..Len(images)) :
     k <= Len(categorized[c]) /\ categorized[c][k] = name}

Generated == report = "gallery: generated"

\* C1: first match wins.  When a scanned file name contains a keyword of rule
\* R and a keyword of a rule S declared after R, the group generate_gallery_html
\* put it in is that of R or, when a rule before R matches too, of that
\* earlier rule: never that of S or of any rule after R.
C1_FirstMatchWins ==
  Generated =>
    \A c \in CategoryIds : \A k \in 1..Len(categorized[c]) :
      \A R, S \in 1..Len(CATEGORIES) :
        (R < S /\ HasKeyword(categorized[c][k], R) /\ HasKeyword(categorized[c][k], S))
          => RuleIndex(c) <= R

\* C2: categorize_image is total with 'misc' as the catch-all.  Every scanned
\* name gets an id that is a key of CATEGORIES and is filed under exactly that
\* one id, and a name no keyword matches gets 'misc'.
C2_TotalWithCatchAll ==
  Generated =>
    \A k \in 1..Len(images) :
      LET c == categorize_image(images[k])
      IN /\ c \in CategoryIds
         /\ \A p \in PlacesOf(images[k]) : p[1] = c
         /\ PlacesOf(images[k]) # {}
         /\ NoKeywordMatches(images[k]) => c = misc

C2_Witness ==
  /\ Generated
  /\ \E k \in 1..Len(images) :
       NoKeywordMatches(images[k]) /\ images[k] \in Range(categorized[misc])
  /\ \E k \in 1..Len(images) : ~NoKeywordMatches(images[k])

\* The sum of the sizes of the groups of CATEGORIES[i..].
RECURSIVE GroupSizes(_)
GroupSizes(i) ==
  IF i > Len(CATEGORIES) THEN 0 ELSE Len(categorized[CATEGORIES[i].id]) + GroupSizes(i + 1)

\* C3: after the categorization loop every scanned image is in exactly one
\* group, at one position; the sizes of the groups sum to the number of
\* scanned images; and the first part shows that number on the "All" control.
C3_GroupsPartitionImages ==
  Generated =>
    /\ \A k \in 1..Len(images) : Cardinality(PlacesOf(images[k])) = 1
    /\ \A c \in CategoryIds : Range(categorized[c]) \subseteq Range(images)
    /\ GroupSizes(1) = Len(images)
    /\ html_parts[1] = AllControl(GroupSizes(1))

C3_Witness ==
  /\ Generated
  /\ Len(images) = MaxImages
  /\ \E c \in CategoryIds : Len(categorized[c]) >= 2
  /\ Len(categorized[misc]) = 1

\* The categories with a non-empty group, in declaration order.
NonEmpty == SelectSeq(CATEGORIES, LAMBDA cat : categorized[cat.id] # <<>>)

\* A part is the control of a category (not the "All" control).
IsCategoryControl(part) ==
  StartsWith(part, <<" "," "," "," "," "," "," "," ","<","b","u","t","t","o","n"," ","c","l","a","s","s","=","\"","b","t","n"," ","b","t","n","-","o","u","t","l","i","n","e","-","p","r","i","m","a","r","y","\""," ","d","a","t","a","-","f","i","l","t","e","r","=","\"">>)

\* A part is the block of an image.
IsImageBlock(part) == StartsWith(part, <<" "," "," "," "," "," "," "," ","<","d","i","v"," ","c","l","a","s","s","=","\"","g","a","l","l","e","r","y","-","i","t","e","m","\"">>)

\* The scanned images of a category, in scan order.
ScannedIn(c) == SelectSeq(images, LAMBDA n : n \in Range(categorized[c]))

\* The expected blocks of NonEmpty[i..]: category by category, each group in
\* scan order.
RECURSIVE BlocksFrom(_)
BlocksFrom(i) ==
  IF i > Len(NonEmpty) THEN <<>>
  ELSE LET c == NonEmpty[i].id
       IN [k \in 1..Len(ScannedIn(c)) |-> ImageBlock(c, ScannedIn(c)[k])] \o BlocksFrom(i + 1)

\* C4: the controls of the categories are, in declaration order, one for each
\* category with a non-empty group and none for an empty one, each with the
\* size of its group; the image blocks follow grouped by category in the same
\* order, each group in (sorted) scan order.
C4_ControlsAndBlocksInOrder ==
  Generated =>
    /\ SelectSeq(html_parts, IsCategoryControl)
         = [i \in 1..Len(NonEmpty) |->
              CategoryControl(NonEmpty[i].id, NonEmpty[i].icon, NonEmpty[i].name,
                              Len(categorized[NonEmpty[i].id]))]
    /\ \A i \in 1..Len(NonEmpty) : IsCategoryControl(html_parts[1 + i])
    /\ SelectSeq(html_parts, IsImageBlock) = BlocksFrom(1)
    /\ \A i \in 1..Len(html_parts) :
         IsImageBlock(html_parts[i]) => i > 1 + Len(NonEmpty)
    /\ \A k \in 1..(Len(images) - 1) : TextLess(PathKey(images[k]), PathKey(images[k + 1]))

\* Two categories are shown, the later declared one sorting first by name, a
\* category is empty, and a group holds two images.
C4_Witness ==
  /\ Generated
  /\ \E i, j \in 1..Len(NonEmpty) : i < j /\ TextLess(NonEmpty[j].id, NonEmpty[i].id)
  /\ Len(NonEmpty) < Len(CATEGORIES)
  /\ \E c \in CategoryIds : Len(categorized[c]) >= 2

\* The document has both markers.
HasBothMarkers(doc) == Contains(doc, start_marker) /\ Contains(doc, end_marker)

\* update_gallery runs with both of its files present.
UpdateRuns == UpdateGallery /\ index_html # Absent /\ gallery_generated # Absent

\* C5: update_gallery on a document that lacks the start marker or the end
\* marker reports the failure and does not write index.html.
C5_MissingMarkerNoWrite ==
  [][(UpdateRuns /\ ~HasBothMarkers(index_html))
       => (index_html' = index_html /\ report' = "update: markers not found")]_vars

C5_Witness ==
  /\ report = "update: markers not found"
  /\ index_html # Absent
  /\ Contains(index_html, start_marker) # Contains(index_html, end_marker)

\* The text before the first start marker and the text after the first end marker.
BeforeStart(doc) == Slice(doc, 0, Find(doc, start_marker))
AfterEnd(doc) == Slice(doc, Find(doc, end_marker) + Len(end_marker), Len(doc))

\* The text of the document outside the marked region, the region being the
\* span from the first of the two markers to the end of the other.
OutsideRegion(doc) ==
  LET s == Find(doc, start_marker)
      e == Find(doc, end_marker)
      lo == IF s < e THEN s ELSE e
      hi == IF s + Len(start_marker) > e + Len(end_marker)
            THEN s + Len(start_marker) ELSE e + Len(end_marker)
  IN Slice(doc, 0, lo) \o Slice(doc, hi, Len(doc))

\* new is old's text before the start marker, the fragment, the closing text
\* that ends with the end marker, and old's text after the end marker,
\* character by character.
Spliced(old, fragment, new) ==
  LET s == Find(old, start_marker)
      t == Find(old, end_marker) + Len(end_marker)
      f == Len(fragment)
      m == Len(end_text)
  IN /\ Len(new) = s + f + m + (Len(old) - t)
     /\ \A i \in 1..s : new[i] = old[i]
     /\ \A i \in 1..f : new[s + i] = fragment[i]
     /\ \A i \in 1..m : new[s + f + i] = end_text[i]
     /\ \A i \in 1..(Len(old) - t) : new[s + f + m + i] = old[t + i]

C8_EmptyScanNoOutput ==
  [][/\ (GenerateGalleryHtml /\ report' = "gallery: no images found")
          => gallery_generated' = gallery_generated
     /\ (GenerateImageList /\ convertedExists /\ image_names' = <<>>)
          => image_list_js' = image_list_js
     /\ (ConvertBegin /\ report' = "convert: no HEIC files found")
          => (convertedExists' = convertedExists /\ convertedFiles' = convertedFiles)]_vars

\* C9: the splice is idempotent.  When update_gallery has just rewritten
\* index.html with a fragment generate_gallery_html wrote, running it again
\* with the same fragment leaves index.html as it is (stated for the
\* documents whose start marker precedes the end marker).
C9_SpliceIdempotent ==
  [][(UpdateRuns /\ report = "update: updated"
        /\ html_parts # <<>> /\ gallery_generated = Join(html_parts, <<"\n">>)
        /\ Find(index_html, start_marker) < Find(index_html, end_marker))
       => index_html' = index_html]_vars

\* The names of a list without repetitions, each at its first place.
RECURSIVE DistinctInOrder(_)
DistinctInOrder(names) ==
  IF names = <<>> THEN <<>>
  ELSE LET n == Len(names)
           init == DistinctInOrder(Slice(names, 0, n - 1))
       IN IF names[n] \in Range(init) THEN init ELSE Append(init, names[n])

\* C10: the image list round trip.  What generate_gallery_urls.py extracts
\* from the image_list.js that generate_image_list wrote is the list of the
\* distinct names written, each once, in first-occurrence order.
C10_ImageListRoundTrip ==
  report = "urls: generated" => unique_images = DistinctInOrder(image_names)

=============================================================================
